---- MODULE Spec2Model ----
(***************************************************************************)
(* campaign-core (src/app.py): a Flask application that runs outbound      *)
(* e-mail campaigns and correlates inbound replies through per-recipient   *)
(* reply tokens.                                                           *)
(*                                                                         *)
(* The four storage tables (campaigns, recipients, campaign_tokens,        *)
(* replies) are sequences of rows in insertion order.  Every HTTP request  *)
(* is served by a request slot r \in Reqs; a handler is cut into steps at  *)
(* its storage calls and transport calls, so that each step holds exactly  *)
(* one call to a collaborator together with the local computation around   *)
(* it.  Requests of different slots interleave freely between steps, as    *)
(* Flask worker threads do.  Texts are sequences of one-character strings. *)
(***************************************************************************)
EXTENDS Integers, Sequences, FiniteSets, TLC

(* ------------------------------ bounds --------------------------------- *)

\* requests accepted over a behaviour, any number of them in flight together
MaxCalls == 2
\* values os.urandom may return in the model
TokenSpace == 2
\* length of the inbound bodies that are enumerated in full
MaxLen == 3

(* --------------------------- program constants ------------------------- *)

\* os.urandom(8)
TokenBytes == 8
\* len(emails) > 1000
UploadLimit == 1000

(* ------------------------------- texts --------------------------------- *)

Min(S) == CHOOSE x \in S : \A y \in S : x <= y
Max(S) == CHOOSE x \in S : \A y \in S : x >= y

\* Python None, for header and environment values
None == "None"
\* SQL NULL in a text column
NullText == <<"NULL">>
\* SQL NULL in a campaign_id column
NullId == 0

Whitespace == {" ", "\t", "\n", "\r"}

\* str.strip()
strip(s) ==
  LET keep == {i \in 1..Len(s) : s[i] \notin Whitespace}
  IN  IF keep = {} THEN <<>> ELSE SubSeq(s, Min(keep), Max(keep))

\* str.find(sub) + 1: the first position of sub in s, 0 when absent
Find(s, sub) ==
  LET hits == {i \in 1..(Len(s) - Len(sub) + 1) : SubSeq(s, i, i + Len(sub) - 1) = sub}
  IN  IF hits = {} THEN 0 ELSE Min(hits)

\* sub in s
Contains(s, sub) == Find(s, sub) # 0

\* s.startswith(p)
StartsWith(s, p) == Len(s) >= Len(p) /\ SubSeq(s, 1, Len(p)) = p

\* s.split(sep, 1)[0]
SplitHead(s, sep) ==
  IF Contains(s, sep) THEN SubSeq(s, 1, Find(s, sep) - 1) ELSE s

\* s.split(sep, 1)[1], for s that contains sep
SplitTail(s, sep) == SubSeq(s, Find(s, sep) + Len(sep), Len(s))

\* (x or "")
OrEmpty(x) == IF x = NullText THEN <<>> ELSE x

(* ------------------------------- state --------------------------------- *)

VARIABLES
  env,
  schema,
  campaigns,
  recipients,
  campaign_tokens,
  replies,
  req,
  calls

vars == <<env, schema, campaigns, recipients, campaign_tokens, replies, req, calls>>

tables == <<campaigns, recipients, campaign_tokens, replies>>

\* request slots: one for each request of the budget
Reqs == 1..MaxCalls

\* the ids a request may name: the seeded campaign's and those of the campaigns that
\* the budget's other requests can have created
CampaignIds == 1..MaxCalls

(* ------------------------------ requests ------------------------------- *)

NoHeaders == [m |-> None, c |-> None]

\* get_campaign(...).data of an id the table does not hold
NoCamp ==
  [id |-> NullId, name |-> <<>>, status |-> "None", subject |-> NullText,
   body |-> NullText, recipient_count |-> 0]

NoForm == [recipient |-> <<>>, subject |-> <<>>, body_plain |-> <<>>, message_id |-> <<>>]

NoEmails == [is_list |-> FALSE, items |-> <<>>]

NoResp == [code |-> 0, error |-> "", data |-> <<>>]

\* a slot that serves no request; a handler's locals at the start of a call
IdleReq ==
  [pc |-> "idle", op |-> "none", campaign_id |-> NullId,
   headers |-> NoHeaders, name |-> <<>>, subject |-> <<>>, body |-> <<>>,
   emails |-> NoEmails, form |-> NoForm,
   camp |-> NoCamp, next_status |-> "None", i |-> 0, token |-> <<>>,
   sent_map |-> <<>>, recipients |-> <<>>, sent |-> 0, failed |-> 0, posted |-> <<>>,
   found_campaign_id |-> NullId, resp |-> NoResp]

\* a slot can take a request when it serves none or its last request has been answered;
\* slots are interchangeable, so a request takes the first such slot
Vacant(r) == req[r].pc \in {"idle", "done"}

Free(r) == Vacant(r) /\ (\A r2 \in 1..(r - 1) : ~Vacant(r2)) /\ calls < MaxCalls

\* the request as it enters its handler
Enter(op, headers, campaign_id) ==
  [IdleReq EXCEPT !.op = op, !.headers = headers, !.campaign_id = campaign_id]

\* the handler returns: its locals are dropped; the request (route, path id, headers,
\* the trimmed subject and body of a content-set, the form of a webhook call) and the
\* response stay until the slot takes its next request
Return(q, code, error, data) ==
  [IdleReq EXCEPT !.pc = "done", !.op = q.op, !.campaign_id = q.campaign_id,
                  !.headers = q.headers, !.subject = q.subject, !.body = q.body,
                  !.form = q.form,
                  !.resp = [code |-> code, error |-> error, data |-> data]]

(* -------------------------------- auth --------------------------------- *)

\* require_m does not abort
require_m(headers) == headers.m = env.M_API_KEY

\* require_c does not abort
require_c(headers) == headers.c = env.C_API_KEY

\* require_viewer does not abort
require_viewer(headers) ==
  ~(headers.m # env.M_API_KEY /\ headers.c # env.C_API_KEY)

(* ------------------------------ helpers -------------------------------- *)

\* get_campaign(campaign_id).data
get_campaign(campaign_id) ==
  IF campaign_id \in 1..Len(campaigns) THEN campaigns[campaign_id] ELSE NoCamp

\* not camp.data
NotFound(camp) == camp.id = NullId

\* the status check compares with a value no campaign carries
IsSent_Misspelt(camp) == camp.status = "Sent"

\* camp.data.get("status") == "sent"
IsSent(camp) == camp.status = "sent"

\* compute_recipient_count
compute_recipient_count(campaign_id) ==
  Len(SelectSeq(recipients, LAMBDA row : row.campaign_id = campaign_id))

\* one hexadecimal digit
HexDigit(k) ==
  <<"0", "1", "2", "3", "4", "5", "6", "7", "8", "9", "a", "b", "c", "d", "e", "f">>[k + 1]

\* bytes.hex() of the big-endian bytes of n, width digits
RECURSIVE Hex(_, _)
Hex(n, width) ==
  IF width = 0 THEN <<>> ELSE Append(Hex(n \div 16, width - 1), HexDigit(n % 16))

\* create_token, for the value n that os.urandom returns
create_token(n) == Hex(n, 2 * TokenBytes)

\* the status set_campaign_content stores
ContentNextStatus(camp) ==
  IF camp.recipient_count > 0 THEN "audience" ELSE "ready"

\* the status has no ready branch
UploadNextStatus_no_ready(has_content, count) ==
  IF has_content THEN "audience" ELSE "draft"

\* the status upload_emails stores
UploadNextStatus(has_content, count) ==
  IF has_content /\ count > 0 THEN "audience"
  ELSE IF ~has_content THEN "draft" ELSE "ready"

\* an entry of the uploaded list that the loop keeps: e, trimmed, is not empty and holds "@"
ValidEmail(email) ==
  LET e == strip(OrEmpty(email)) IN ~(e = <<>> \/ ~Contains(e, <<"@">>))

\* the position of the first entry after position i that the loop keeps, 0 when none
NextValid(items, i) ==
  LET rest == {j \in (i + 1)..Len(items) : ValidEmail(items[j])}
  IN  IF rest = {} THEN 0 ELSE Min(rest)

(* ------------------------- POST /campaigns ----------------------------- *)

\* create_campaign, whole: auth, validation and the insert
create_campaign(r, headers, name) ==
  LET q == [Enter("create", headers, NullId) EXCEPT !.name = strip(OrEmpty(name))] IN
  /\ Free(r)
  /\ calls' = calls + 1
  /\ UNCHANGED <<env, schema, recipients, campaign_tokens, replies>>
  /\ IF ~require_c(headers)
     THEN /\ req' = [req EXCEPT ![r] = Return(q, 403, "forbidden", <<>>)]
          /\ UNCHANGED campaigns
     ELSE IF q.name = <<>>
     THEN /\ req' = [req EXCEPT ![r] = Return(q, 400, "name required", <<>>)]
          /\ UNCHANGED campaigns
     ELSE LET row == [id |-> Len(campaigns) + 1, name |-> q.name, status |-> "draft",
                      subject |-> NullText, body |-> NullText, recipient_count |-> 0]
          IN  /\ campaigns' = Append(campaigns, row)
              /\ req' = [req EXCEPT ![r] = Return(q, 200, "", row)]

(* --------------------- POST /campaigns/<id>/content -------------------- *)

\* set_campaign_content up to the update: auth, validation, get_campaign, next_status
content_start(r, headers, campaign_id, subject, body) ==
  LET q0 == [Enter("content", headers, campaign_id)
               EXCEPT !.subject = strip(OrEmpty(subject)), !.body = strip(OrEmpty(body))]
      camp == get_campaign(campaign_id)
      q == [q0 EXCEPT !.camp = camp, !.next_status = ContentNextStatus(camp),
                      !.pc = "content_update"]
  IN
  /\ Free(r)
  /\ calls' = calls + 1
  /\ UNCHANGED <<env, schema, tables>>
  /\ req' = [req EXCEPT ![r] =
       IF ~require_c(headers) THEN Return(q0, 403, "forbidden", <<>>)
       ELSE IF q0.subject = <<>> \/ q0.body = <<>>
         THEN Return(q0, 400, "subject and body required", <<>>)
       ELSE IF NotFound(camp) THEN Return(q0, 404, "campaign not found", <<>>)
       ELSE IF IsSent(camp) THEN Return(q0, 400, "campaign already sent", <<>>)
       ELSE q]

\* the update stores the subject and the status, not the body
content_update_subject_only(r) ==
  LET q == req[r] IN
  /\ q.pc = "content_update"
  /\ campaigns' = [campaigns EXCEPT ![q.campaign_id] =
       [@ EXCEPT !.subject = q.subject, !.status = q.next_status]]
  /\ req' = [req EXCEPT ![r] = Return(q, 200, "",
       [status |-> "updated", campaign_id |-> q.campaign_id,
        campaign_status |-> q.next_status])]
  /\ UNCHANGED <<env, schema, recipients, campaign_tokens, replies, calls>>

\* set_campaign_content: the update of the campaign row, and the response
content_update(r) ==
  LET q == req[r] IN
  /\ q.pc = "content_update"
  /\ campaigns' = [campaigns EXCEPT ![q.campaign_id] =
       [@ EXCEPT !.subject = q.subject, !.body = q.body, !.status = q.next_status]]
  /\ req' = [req EXCEPT ![r] = Return(q, 200, "",
       [status |-> "updated", campaign_id |-> q.campaign_id,
        campaign_status |-> q.next_status])]
  /\ UNCHANGED <<env, schema, recipients, campaign_tokens, replies, calls>>

(* ------------------ POST /campaigns/<id>/upload-emails ----------------- *)

\* the handler without its limit on the length of the list
upload_start_unlimited(r, headers, campaign_id, emails) ==
  LET q0 == [Enter("upload", headers, campaign_id) EXCEPT !.emails = emails]
      camp == get_campaign(campaign_id)
      q == [q0 EXCEPT !.camp = camp, !.pc = "upload_delete_recipients"]
  IN
  /\ Free(r)
  /\ calls' = calls + 1
  /\ UNCHANGED <<env, schema, tables>>
  /\ req' = [req EXCEPT ![r] =
       IF ~require_m(headers) THEN Return(q0, 403, "forbidden", <<>>)
       ELSE IF NotFound(camp) THEN Return(q0, 404, "campaign not found", <<>>)
       ELSE IF IsSent(camp) THEN Return(q0, 400, "campaign already sent", <<>>)
       ELSE IF ~emails.is_list \/ emails.items = <<>>
         THEN Return(q0, 400, "emails must be a list", <<>>)
       ELSE q]

\* upload_emails up to the first delete: auth, get_campaign, validation of the list
upload_start(r, headers, campaign_id, emails) ==
  LET q0 == [Enter("upload", headers, campaign_id) EXCEPT !.emails = emails]
      camp == get_campaign(campaign_id)
      q == [q0 EXCEPT !.camp = camp, !.pc = "upload_delete_recipients"]
  IN
  /\ Free(r)
  /\ calls' = calls + 1
  /\ UNCHANGED <<env, schema, tables>>
  /\ req' = [req EXCEPT ![r] =
       IF ~require_m(headers) THEN Return(q0, 403, "forbidden", <<>>)
       ELSE IF NotFound(camp) THEN Return(q0, 404, "campaign not found", <<>>)
       ELSE IF IsSent(camp) THEN Return(q0, 400, "campaign already sent", <<>>)
       ELSE IF ~emails.is_list \/ emails.items = <<>>
         THEN Return(q0, 400, "emails must be a list", <<>>)
       ELSE IF Len(emails.items) > UploadLimit
         THEN Return(q0, 400, "max 1000 emails per request", <<>>)
       ELSE q]

\* upload_emails: recipients.delete().eq(campaign_id)
upload_delete_recipients(r) ==
  LET q == req[r] IN
  /\ q.pc = "upload_delete_recipients"
  /\ recipients' = SelectSeq(recipients, LAMBDA row : row.campaign_id # q.campaign_id)
  /\ req' = [req EXCEPT ![r].pc = "upload_delete_tokens"]
  /\ UNCHANGED <<env, schema, campaigns, campaign_tokens, replies, calls>>

\* upload_emails: campaign_tokens.delete().eq(campaign_id), and the loop's way to its
\* first kept entry
upload_delete_tokens(r) ==
  LET q == req[r]
      first == NextValid(q.emails.items, 0)
  IN
  /\ q.pc = "upload_delete_tokens"
  /\ campaign_tokens' =
       SelectSeq(campaign_tokens, LAMBDA row : row.campaign_id # q.campaign_id)
  /\ req' = [req EXCEPT ![r].i = first,
                        ![r].pc = IF first = 0 THEN "upload_update" ELSE "upload_insert_token"]
  /\ UNCHANGED <<env, schema, campaigns, recipients, replies, calls>>

\* campaign_tokens.insert(row): under a unique constraint on token a second row with
\* the token is refused and the client raises
TokenInsertRaises(token) ==
  schema.token_unique /\ \E k \in 1..Len(campaign_tokens) : campaign_tokens[k].token = token

\* upload_emails: create_token and the insert of the token mapping; n is what
\* os.urandom returned
upload_insert_token(r, n) ==
  LET q == req[r]
      token == create_token(n)
  IN
  /\ q.pc = "upload_insert_token"
  /\ IF TokenInsertRaises(token)
     THEN /\ req' = [req EXCEPT ![r] = Return(q, 500, "Internal Server Error", <<>>)]
          /\ UNCHANGED campaign_tokens
     ELSE /\ campaign_tokens' =
               Append(campaign_tokens, [token |-> token, campaign_id |-> q.campaign_id])
          /\ req' = [req EXCEPT ![r].token = token, ![r].pc = "upload_insert_recipient"]
  /\ UNCHANGED <<env, schema, campaigns, recipients, replies, calls>>

\* upload_emails: the insert of the recipient row, sent_map.append, and the loop's way
\* to its next kept entry
upload_insert_recipient(r) ==
  LET q == req[r]
      e == strip(OrEmpty(q.emails.items[q.i]))
      next == NextValid(q.emails.items, q.i)
  IN
  /\ q.pc = "upload_insert_recipient"
  /\ recipients' = Append(recipients,
       [campaign_id |-> q.campaign_id, token |-> q.token, email |-> e])
  /\ req' = [req EXCEPT ![r].sent_map = Append(@, [email |-> e, token |-> q.token]),
                        ![r].i = next,
                        ![r].pc = IF next = 0 THEN "upload_update" ELSE "upload_insert_token"]
  /\ UNCHANGED <<env, schema, campaigns, campaign_tokens, replies, calls>>

\* upload_emails: count, next_status, the update of the campaign row, and the response
upload_update(r) ==
  LET q == req[r]
      count == Len(q.sent_map)
      has_content == strip(OrEmpty(q.camp.subject)) # <<>>
      next_status == UploadNextStatus(has_content, count)
  IN
  /\ q.pc = "upload_update"
  /\ campaigns' = [campaigns EXCEPT ![q.campaign_id] =
       [@ EXCEPT !.recipient_count = count, !.status = next_status]]
  /\ req' = [req EXCEPT ![r] = Return(q, 200, "",
       [campaign_id |-> q.campaign_id, count |-> count, status |-> next_status,
        map |-> q.sent_map])]
  /\ UNCHANGED <<env, schema, recipients, campaign_tokens, replies, calls>>

(* ------------------- GET /campaigns/<id>/token-map --------------------- *)

\* get_token_map, whole
get_token_map(r, headers, campaign_id) ==
  LET q == Enter("token_map", headers, campaign_id)
      rows == SelectSeq(recipients, LAMBDA row : row.campaign_id = campaign_id)
  IN
  /\ Free(r)
  /\ calls' = calls + 1
  /\ UNCHANGED <<env, schema, tables>>
  /\ req' = [req EXCEPT ![r] =
       IF ~require_m(headers) THEN Return(q, 403, "forbidden", <<>>)
       ELSE Return(q, 200, "",
              [campaign_id |-> campaign_id,
               map |-> [k \in 1..Len(rows) |->
                         [email |-> rows[k].email, token |-> rows[k].token]]])]

(* ---------------------- POST /campaigns/<id>/send ---------------------- *)

\* send_one_email's Reply-To header
REPLY_DOMAIN == <<"m", "g", ".", "x">>

ReplyPrefix == <<"r", "e", "p", "l", "y", "+">>

reply_to(token) == ReplyPrefix \o token \o <<"@">> \o REPLY_DOMAIN

\* the handler without its check of the subject and body
send_start_any_content(r, route, headers, campaign_id) ==
  LET q0 == Enter(route, headers, campaign_id)
      camp == get_campaign(campaign_id)
      q == [q0 EXCEPT !.camp = camp, !.pc = "send_fetch"]
  IN
  /\ Free(r)
  /\ calls' = calls + 1
  /\ UNCHANGED <<env, schema, tables>>
  /\ req' = [req EXCEPT ![r] =
       IF ~require_c(headers) THEN Return(q0, 403, "forbidden", <<>>)
       ELSE IF NotFound(camp) THEN Return(q0, 404, "campaign not found", <<>>)
       ELSE IF IsSent(camp) THEN Return(q0, 400, "campaign already sent", <<>>)
       ELSE q]

\* send_campaign (route is "send" or its alias "tokenize_and_send") up to the select
\* of the recipients: auth, get_campaign, the status and content checks
send_start(r, route, headers, campaign_id) ==
  LET q0 == Enter(route, headers, campaign_id)
      camp == get_campaign(campaign_id)
      subject == strip(OrEmpty(camp.subject))
      body == strip(OrEmpty(camp.body))
      q == [q0 EXCEPT !.camp = camp, !.pc = "send_fetch"]
  IN
  /\ Free(r)
  /\ calls' = calls + 1
  /\ UNCHANGED <<env, schema, tables>>
  /\ req' = [req EXCEPT ![r] =
       IF ~require_c(headers) THEN Return(q0, 403, "forbidden", <<>>)
       ELSE IF NotFound(camp) THEN Return(q0, 404, "campaign not found", <<>>)
       ELSE IF IsSent(camp) THEN Return(q0, 400, "campaign already sent", <<>>)
       ELSE IF subject = <<>> \/ body = <<>>
         THEN Return(q0, 400, "campaign content not set", <<>>)
       ELSE q]

\* send_campaign: the select of the campaign's recipients
send_fetch(r) ==
  LET q == req[r]
      rows == SelectSeq(recipients, LAMBDA row : row.campaign_id = q.campaign_id)
  IN
  /\ q.pc = "send_fetch"
  /\ req' = [req EXCEPT ![r] =
       IF Len(rows) = 0 THEN Return(q, 400, "no recipients uploaded", <<>>)
       ELSE [q EXCEPT !.recipients = rows, !.i = 1, !.pc = "send_loop"]]
  /\ UNCHANGED <<env, schema, tables, calls>>

\* the request send_one_email posts to the transport
send_one_email(to_email, subject, body, token) ==
  [to |-> to_email, subject |-> subject, text |-> body, reply_to |-> reply_to(token)]

\* the loop without its try: a failed post ends the batch
send_loop_aborting(r, delivered) ==
  LET q == req[r]
      row == q.recipients[q.i]
      subject == strip(OrEmpty(q.camp.subject))
      body == strip(OrEmpty(q.camp.body))
  IN
  /\ q.pc = "send_loop"
  /\ req' = [req EXCEPT ![r].posted =
                          Append(@, send_one_email(row.email, subject, body, row.token)),
                        ![r].sent = IF delivered THEN @ + 1 ELSE @,
                        ![r].failed = IF delivered THEN @ ELSE @ + 1,
                        ![r].i = @ + 1,
                        ![r].pc = IF q.i = Len(q.recipients) \/ ~delivered
                                  THEN "send_mark" ELSE "send_loop"]
  /\ UNCHANGED <<env, schema, tables, calls>>

\* send_campaign: one turn of the loop; delivered is the transport's answer (FALSE:
\* requests.post raised, timed out, or raise_for_status raised)
send_loop(r, delivered) ==
  LET q == req[r]
      row == q.recipients[q.i]
      subject == strip(OrEmpty(q.camp.subject))
      body == strip(OrEmpty(q.camp.body))
  IN
  /\ q.pc = "send_loop"
  /\ req' = [req EXCEPT ![r].posted =
                          Append(@, send_one_email(row.email, subject, body, row.token)),
                        ![r].sent = IF delivered THEN @ + 1 ELSE @,
                        ![r].failed = IF delivered THEN @ ELSE @ + 1,
                        ![r].i = @ + 1,
                        ![r].pc = IF q.i = Len(q.recipients) THEN "send_mark" ELSE "send_loop"]
  /\ UNCHANGED <<env, schema, tables, calls>>

\* the campaign is marked sent only when some post was delivered
send_mark_if_delivered(r) ==
  LET q == req[r]
      status == IF q.sent > 0 THEN "sent" ELSE q.camp.status
  IN
  /\ q.pc = "send_mark"
  /\ campaigns' = [campaigns EXCEPT ![q.campaign_id].status = status]
  /\ req' = [req EXCEPT ![r] = Return(q, 200, "",
       [campaign_id |-> q.campaign_id, sent |-> q.sent, failed |-> q.failed,
        status |-> status])]
  /\ UNCHANGED <<env, schema, recipients, campaign_tokens, replies, calls>>

\* send_campaign: the update that marks the campaign sent, and the response
send_mark(r) ==
  LET q == req[r] IN
  /\ q.pc = "send_mark"
  /\ campaigns' = [campaigns EXCEPT ![q.campaign_id].status = "sent"]
  /\ req' = [req EXCEPT ![r] = Return(q, 200, "",
       [campaign_id |-> q.campaign_id, sent |-> q.sent, failed |-> q.failed,
        status |-> "sent"])]
  /\ UNCHANGED <<env, schema, recipients, campaign_tokens, replies, calls>>

(* ---------------------------- POST /mailgun ---------------------------- *)

\* the text is trimmed before it is cut at the markers, not after
clean_body_trim_first(text) ==
  LET t0 == strip(text)
      t1 == IF Contains(t0, <<"\n", "O", "n", " ">>)
            THEN SplitHead(t0, <<"\n", "O", "n", " ">>) ELSE t0
      t2 == IF Contains(t1, <<"\n", "F", "r", "o", "m", ":">>)
            THEN SplitHead(t1, <<"\n", "F", "r", "o", "m", ":">>) ELSE t1
  IN  IF Contains(t2, <<"\n", ">">>) THEN SplitHead(t2, <<"\n", ">">>) ELSE t2

\* clean_body
clean_body(text) ==
  LET t1 == IF Contains(text, <<"\n", "O", "n", " ">>)
            THEN SplitHead(text, <<"\n", "O", "n", " ">>) ELSE text
      t2 == IF Contains(t1, <<"\n", "F", "r", "o", "m", ":">>)
            THEN SplitHead(t1, <<"\n", "F", "r", "o", "m", ":">>) ELSE t1
      t3 == IF Contains(t2, <<"\n", ">">>) THEN SplitHead(t2, <<"\n", ">">>) ELSE t2
  IN  strip(t3)

\* the token is taken to be all that follows the prefix
decode_unsplit(recipient) ==
  IF StartsWith(recipient, ReplyPrefix) /\ Contains(recipient, <<"@">>)
  THEN SplitTail(recipient, ReplyPrefix)
  ELSE NullText

\* the token mailgun_webhook reads from the recipient address, NullText for none
decode(recipient) ==
  IF StartsWith(recipient, ReplyPrefix) /\ Contains(recipient, <<"@">>)
  THEN SplitHead(SplitTail(recipient, ReplyPrefix), <<"@">>)
  ELSE NullText

\* not x, for a text or None
Falsy(x) == x = NullText \/ x = <<>>

\* the dedup select filters on the token column, with the message id
Existing_ByToken(message_id) == \E k \in 1..Len(replies) : replies[k].token = message_id

\* replies.select("id").eq("message_id", message_id).limit(1) returns a row
Existing(message_id) == \E k \in 1..Len(replies) : replies[k].message_id = message_id

\* replies.insert(row): under a unique constraint on message_id a second row with the
\* message id is refused and the client raises
ReplyInsertRaises(message_id) == schema.message_unique /\ Existing(message_id)

\* mailgun_webhook up to its first select: the form, the token, the early return, and
\* the lookup of the message id.  up: the storage call returns (FALSE: it raises)
mailgun_start(r, form, up) ==
  LET q0 == [Enter("mailgun", NoHeaders, NullId) EXCEPT !.form = form]
      recipient == OrEmpty(form.recipient)
      token == decode(recipient)
  IN
  /\ Free(r)
  /\ calls' = calls + 1
  /\ UNCHANGED <<env, schema, tables>>
  /\ req' = [req EXCEPT ![r] =
       IF Falsy(token) \/ Falsy(form.body_plain) \/ Falsy(form.message_id)
         THEN Return(q0, 200, "", <<>>)
       ELSE IF ~up THEN Return(q0, 500, "Internal Server Error", <<>>)
       ELSE IF Existing(form.message_id) THEN Return(q0, 200, "", <<>>)
       ELSE [q0 EXCEPT !.token = token, !.pc = "mailgun_lookup"]]

\* mailgun_webhook: campaign_tokens.select("campaign_id").eq("token", token).limit(1);
\* the select has no order, so any row with the token may be the one returned
mailgun_lookup(r, up) ==
  LET q == req[r]
      rows == SelectSeq(campaign_tokens, LAMBDA t : t.token = q.token)
      found == IF rows = <<>> THEN {NullId}
               ELSE {rows[k].campaign_id : k \in 1..Len(rows)}
  IN
  /\ q.pc = "mailgun_lookup"
  /\ \E campaign_id \in found :
       req' = [req EXCEPT ![r] =
         IF ~up THEN Return(q, 500, "Internal Server Error", <<>>)
         ELSE [q EXCEPT !.found_campaign_id = campaign_id, !.pc = "mailgun_insert"]]
  /\ UNCHANGED <<env, schema, tables, calls>>

\* mailgun_webhook: the insert of the reply, and the response
mailgun_insert(r, up) ==
  LET q == req[r]
      row == [token |-> q.token, campaign_id |-> q.found_campaign_id,
              subject |-> q.form.subject, body |-> clean_body(q.form.body_plain),
              message_id |-> q.form.message_id]
  IN
  /\ q.pc = "mailgun_insert"
  /\ IF ~up \/ ReplyInsertRaises(q.form.message_id)
     THEN /\ req' = [req EXCEPT ![r] = Return(q, 500, "Internal Server Error", <<>>)]
          /\ UNCHANGED replies
     ELSE /\ replies' = Append(replies, row)
          /\ req' = [req EXCEPT ![r] = Return(q, 200, "", <<>>)]
  /\ UNCHANGED <<env, schema, campaigns, recipients, campaign_tokens, calls>>

(* ----------------------- GET /replies, /campaigns ---------------------- *)

\* .limit(200)
ReplyListLimit == 200

\* .order(..., desc=True): the rows, last inserted first
Descending(rows) == [k \in 1..Len(rows) |-> rows[Len(rows) + 1 - k]]

\* list_replies, whole
list_replies(r, headers) ==
  LET q == Enter("list_replies", headers, NullId)
      rows == Descending(replies)
      shown == SubSeq(rows, 1, IF Len(rows) < ReplyListLimit THEN Len(rows) ELSE ReplyListLimit)
  IN
  /\ Free(r)
  /\ calls' = calls + 1
  /\ UNCHANGED <<env, schema, tables>>
  /\ req' = [req EXCEPT ![r] =
       IF ~require_viewer(headers) THEN Return(q, 403, "forbidden", <<>>)
       ELSE Return(q, 200, "",
              [k \in 1..Len(shown) |->
                [token |-> shown[k].token, body |-> shown[k].body,
                 subject |-> shown[k].subject, campaign_id |-> shown[k].campaign_id]])]

\* list_campaigns, whole
list_campaigns(r, headers) ==
  LET q == Enter("list_campaigns", headers, NullId) IN
  /\ Free(r)
  /\ calls' = calls + 1
  /\ UNCHANGED <<env, schema, tables>>
  /\ req' = [req EXCEPT ![r] =
       IF ~require_viewer(headers) THEN Return(q, 403, "forbidden", <<>>)
       ELSE Return(q, 200, "", Descending(campaigns))]

(* ------------------------------- inputs -------------------------------- *)

\* the deployment's keys
Configured == [M_API_KEY |-> "m-secret", C_API_KEY |-> "c-secret"]

\* a request of the data owner, and one of the content owner
AsM == [m |-> "m-secret", c |-> None]
AsC == [m |-> None, c |-> "c-secret"]

Q1 == <<"Q", "1">>
Hi == <<"H", "i">>
Hello == <<"H", "e", "l", "l", "o">>

Names == {Q1, <<" ">>}

\* request bodies of content-set: two that pass validation (one needs trimming), and
\* one whose subject is blank
Contents ==
  {[subject |-> Hi, body |-> Hello],
   [subject |-> <<"Y", "o", " ">>, body |-> <<"B", "y", "e">>],
   [subject |-> <<" ">>, body |-> Hello]}

EmailA == <<"a", "@", "x">>
EmailB == <<" ", "b", "@", "x">>
EmailBad == <<"b", "a", "d">>

\* request bodies of audience-upload: a list with a dropped and a kept entry,
\* a list with no kept entry, an empty list, a value that is no list, and a list over
\* the limit
EmailLists ==
  {[is_list |-> TRUE, items |-> <<EmailBad, EmailB>>],
   [is_list |-> TRUE, items |-> <<EmailBad>>],
   [is_list |-> TRUE, items |-> <<>>],
   [is_list |-> FALSE, items |-> <<>>],
   [is_list |-> TRUE, items |-> [k \in 1..(UploadLimit + 1) |-> EmailA]]}

\* inbound bodies: a reply above a quoted-date header, a reply above a quoted line
RawDated == <<"R", "e", "\n", "O", "n", " ", "q">>
RawQuoted == <<" ", "o", "k", "\n", ">", "q">>

MessageIds == {<<"m", "1">>, <<"m", "2">>}

\* inbound forms: the recipient is a reply address of the seeded audience, a reply
\* address with an empty token, or no reply address; the body and the message id are
\* present or missing
Forms ==
  [recipient : {reply_to(create_token(0)), <<"r", "e", "p", "l", "y", "+", "@", "x">>,
                <<"x", "@", "y">>},
   subject : {<<"S">>},
   body_plain : {RawDated, RawQuoted, NullText},
   message_id : MessageIds \cup {NullText}]

(* ------------------------------ storage -------------------------------- *)

\* The application starts on the database its earlier runs left.  The seeds are the
\* tables after: nothing; create; create, content-set and audience-upload.
SeedEmpty ==
  [campaigns |-> <<>>, recipients |-> <<>>, campaign_tokens |-> <<>>]

SeedDraft ==
  [campaigns |-> <<[id |-> 1, name |-> Q1, status |-> "draft", subject |-> NullText,
                    body |-> NullText, recipient_count |-> 0]>>,
   recipients |-> <<>>, campaign_tokens |-> <<>>]

SeedAudience ==
  [campaigns |-> <<[id |-> 1, name |-> Q1, status |-> "audience", subject |-> Hi,
                    body |-> Hello, recipient_count |-> 2]>>,
   recipients |-> <<[campaign_id |-> 1, token |-> create_token(0), email |-> <<"a", "@", "x">>],
                    [campaign_id |-> 1, token |-> create_token(1), email |-> <<"b", "@", "x">>]>>,
   campaign_tokens |-> <<[token |-> create_token(0), campaign_id |-> 1],
                         [token |-> create_token(1), campaign_id |-> 1]>>]

Seeds == {SeedEmpty, SeedDraft, SeedAudience}

(* --------------------------- specifications ---------------------------- *)

InitFrom(seed) ==
  /\ campaigns = seed.campaigns
  /\ recipients = seed.recipients
  /\ campaign_tokens = seed.campaign_tokens
  /\ replies = <<>>
  /\ req = [r \in Reqs |-> IdleReq]
  /\ calls = 0

\* the campaign pipeline: create, content-set, audience-upload and send, interleaved
Init ==
  /\ env = Configured
  /\ schema \in {[token_unique |-> u, message_unique |-> FALSE] : u \in BOOLEAN}
  /\ \E seed \in Seeds : InitFrom(seed)

Next ==
  \E r \in Reqs :
    \/ \E h \in {AsC}, name \in Names : create_campaign(r, h, name)
    \/ \E h \in {AsC}, id \in CampaignIds, c \in Contents :
         content_start(r, h, id, c.subject, c.body)
    \/ content_update(r)
    \/ \E h \in {AsM}, id \in CampaignIds, emails \in EmailLists :
         upload_start(r, h, id, emails)
    \/ upload_delete_recipients(r)
    \/ upload_delete_tokens(r)
    \/ \E n \in 0..(TokenSpace - 1) : upload_insert_token(r, n)
    \/ upload_insert_recipient(r)
    \/ upload_update(r)
    \/ \E route \in {"send"}, h \in {AsC}, id \in CampaignIds :
         send_start(r, route, h, id)
    \/ send_fetch(r)
    \/ \E delivered \in BOOLEAN : send_loop(r, delivered)
    \/ send_mark(r)

Spec == Init /\ [][Next]_vars

\* sends and content-sets on the seeded audience, interleaved
InitSend ==
  /\ env = Configured
  /\ schema = [token_unique |-> TRUE, message_unique |-> FALSE]
  /\ InitFrom(SeedAudience)

\* the next step of the send or content-set that slot r serves
StepSend(r) ==
  \/ content_update(r)
  \/ send_fetch(r)
  \/ \E delivered \in BOOLEAN : send_loop(r, delivered)
  \/ send_mark(r)

NextSend ==
  \E r \in Reqs :
    \/ \E id \in CampaignIds, c \in Contents : content_start(r, AsC, id, c.subject, c.body)
    \/ \E route \in {"send", "tokenize_and_send"}, id \in CampaignIds :
         send_start(r, route, AsC, id)
    \/ StepSend(r)

\* A worker thread that serves a request keeps running: a storage call returns, and
\* requests.post returns or raises within its timeout of 15 seconds.
SpecSend == InitSend /\ [][NextSend]_vars /\ \A r \in Reqs : WF_vars(StepSend(r))

\* audience-uploads of lists with two kept entries, and token-map reads, interleaved
NextUpload ==
  \E r \in Reqs :
    \/ \E id \in CampaignIds :
         upload_start(r, AsM, id, [is_list |-> TRUE, items |-> <<EmailA, EmailBad, EmailB>>])
    \/ upload_delete_recipients(r)
    \/ upload_delete_tokens(r)
    \/ \E n \in 0..(TokenSpace - 1) : upload_insert_token(r, n)
    \/ upload_insert_recipient(r)
    \/ upload_update(r)
    \/ \E id \in CampaignIds : get_token_map(r, AsM, id)

SpecUpload == Init /\ [][NextUpload]_vars

\* the keys of a deployment: os.environ.get returns None for a key that is not set
Deployments ==
  [M_API_KEY : {"m-secret", None}, C_API_KEY : {"c-secret", None}]

\* the key headers of a request: absent, the configured secret, or another value
KeyHeaders == [m : {None, "m-secret", "wrong"}, c : {None, "c-secret", "wrong"}]

\* the endpoints that handle recipient addresses and the read endpoints, called with
\* any key headers, under any deployment of the keys
InitAuth ==
  /\ env \in Deployments
  /\ schema = [token_unique |-> TRUE, message_unique |-> FALSE]
  /\ InitFrom(SeedAudience)

NextAuth ==
  \E r \in Reqs :
    \/ \E h \in KeyHeaders :
         upload_start(r, h, 1, [is_list |-> TRUE, items |-> <<EmailBad, EmailB>>])
    \/ upload_delete_recipients(r)
    \/ upload_delete_tokens(r)
    \/ \E n \in 0..(TokenSpace - 1) : upload_insert_token(r, n)
    \/ upload_insert_recipient(r)
    \/ upload_update(r)
    \/ \E h \in KeyHeaders : get_token_map(r, h, 1)
    \/ \E h \in KeyHeaders : list_campaigns(r, h)
    \/ \E h \in KeyHeaders : list_replies(r, h)
    \/ \E h \in KeyHeaders : send_start(r, "send", h, 1)
    \/ send_fetch(r)
    \/ \E delivered \in BOOLEAN : send_loop(r, delivered)
    \/ send_mark(r)

SpecAuth == InitAuth /\ [][NextAuth]_vars

\* inbound webhook calls, interleaved, any storage call of which may raise; the replies
\* table with or without a unique constraint on message_id
InitHook ==
  /\ env = Configured
  /\ schema \in {[token_unique |-> FALSE, message_unique |-> u] : u \in BOOLEAN}
  /\ \E seed \in {SeedEmpty, SeedAudience} : InitFrom(seed)

NextHook ==
  \E r \in Reqs :
    \/ \E form \in Forms, up \in BOOLEAN : mailgun_start(r, form, up)
    \/ \E up \in BOOLEAN : mailgun_lookup(r, up)
    \/ \E up \in BOOLEAN : mailgun_insert(r, up)

SpecHook == InitHook /\ [][NextHook]_vars

\* no request is in flight
Quiet == \A r \in Reqs : Vacant(r)

\* inbound webhook calls one after the other, every storage call of which returns
NextHookSeq ==
  \E r \in Reqs :
    \/ \E form \in Forms : Quiet /\ mailgun_start(r, form, TRUE)
    \/ mailgun_lookup(r, TRUE)
    \/ mailgun_insert(r, TRUE)

SpecHookSeq == InitHook /\ [][NextHookSeq]_vars

\* f"reply+{token}@{REPLY_DOMAIN}", for the domain the deployment sets
reply_address(token, domain) == ReplyPrefix \o token \o <<"@">> \o domain

\* tokens create_token can return: those of the model's os.urandom, and one with
\* letters among its digits (0000000000abcdef)
Tokens == {create_token(n) : n \in (0..(TokenSpace - 1)) \cup {11259375}}

\* values of REPLY_DOMAIN
Domains == {REPLY_DOMAIN, <<"x">>, <<"a", "@", "b">>, <<>>}

\* addresses that are no reply address: no prefix, the prefix not at the start, the
\* prefix in capitals, the prefix without its plus sign, no "@"
OtherAddresses ==
  {<<"x", "@", "y">>,
   <<"x">> \o reply_address(create_token(0), REPLY_DOMAIN),
   <<"R", "e", "p", "l", "y", "+">> \o create_token(0) \o <<"@", "x">>,
   <<"r", "e", "p", "l", "y">> \o create_token(0) \o <<"@", "x">>,
   ReplyPrefix \o create_token(0)}

\* inbound forms whose recipient is a reply address of a token and a domain, or none
CodecForms ==
  [recipient : {reply_address(t, d) : t \in Tokens, d \in Domains} \cup OtherAddresses,
   subject : {<<"S">>},
   body_plain : {RawQuoted},
   message_id : MessageIds]

\* inbound webhook calls to reply addresses, one after the other
NextCodec ==
  \E r \in Reqs :
    \/ \E form \in CodecForms : Quiet /\ mailgun_start(r, form, TRUE)
    \/ mailgun_lookup(r, TRUE)
    \/ mailgun_insert(r, TRUE)

SpecCodec == InitHook /\ [][NextCodec]_vars

\* every text of up to MaxLen characters that are a newline, a quote sign, a blank or
\* a letter
ShortTexts == UNION {[1..n -> {"\n", ">", " ", "a"}] : n \in 0..MaxLen}

\* inbound bodies: the short texts, and texts with the longer markers, with two markers
\* of which the later one is searched first, and with nothing before a marker
Bodies ==
  (ShortTexts \ {<<>>}) \cup
  {RawDated, RawQuoted,
   <<"a", " ", "\n", "F", "r", "o", "m", ":", " ", "b">>,
   <<"a", "\n", ">", "b", "\n", "O", "n", " ", "c">>,
   <<" ", "a", "\n", "O", "n", " ", "b", "\n", ">", "c">>,
   <<"\n", "F", "r", "o", "m", ":", "x">>,
   <<"a", "\n", "O", "n">>}

SanitizeForms ==
  [recipient : {reply_to(create_token(0))},
   subject : {<<"S">>},
   body_plain : Bodies,
   message_id : {<<"m", "1">>}]

\* the first delivery of a message with one of these bodies: calls one after the other,
\* up to the one that stores the reply
NextSanitize ==
  \E r \in Reqs :
    \/ \E form \in SanitizeForms : Quiet /\ replies = <<>> /\ mailgun_start(r, form, TRUE)
    \/ mailgun_lookup(r, TRUE)
    \/ mailgun_insert(r, TRUE)

SpecSanitize == InitHook /\ [][NextSanitize]_vars

(* ------------------------------- claims -------------------------------- *)

\* the step is the entry of a request into slot r
Starts(r) == Free(r) /\ calls' = calls + 1

\* the rows of a table that belong to campaign id
RowsOf(table, id) == SelectSeq(table, LAMBDA row : row.campaign_id = id)

\* the response of the request in slot r is the already-sent rejection
AlreadySent(q) ==
  q.pc = "done" /\ q.resp.code = 400 /\ q.resp.error = "campaign already sent"

\* C1, as claimed: whenever a content-set, an audience-upload or a send enters while
\* its campaign's stored status is sent, it is answered with the already-sent
\* rejection, and no table changes.
C1_SentRejectsEveryCall ==
  [][\A r \in Reqs :
      (/\ Starts(r)
       /\ req'[r].op \in {"content", "upload", "send"}
       /\ get_campaign(req'[r].campaign_id).status = "sent")
      => (AlreadySent(req'[r]) /\ tables' = tables)]_vars

\* C1, amended: whenever an audience-upload, a send, or a content-set whose trimmed
\* subject and body are both non-empty enters while its campaign's stored status is
\* sent, it is answered with the already-sent rejection; a content-set with a blank
\* subject or body is answered with the validation error instead; in every case the
\* request ends in that step and no table changes.
C1_SentRejects ==
  [][\A r \in Reqs :
      (/\ Starts(r)
       /\ req'[r].op \in {"content", "upload", "send"}
       /\ get_campaign(req'[r].campaign_id).status = "sent")
      => /\ req'[r].pc = "done"
         /\ req'[r].resp.code = 400
         /\ IF req'[r].op = "content" /\ (req'[r].subject = <<>> \/ req'[r].body = <<>>)
            THEN req'[r].resp.error = "subject and body required"
            ELSE req'[r].resp.error = "campaign already sent"
         /\ tables' = tables]_vars

\* C1, witness: a content-set with a valid subject and body has been answered with the
\* already-sent rejection
C1_Witness ==
  \E r \in Reqs :
    /\ req[r].op = "content" /\ AlreadySent(req[r])
    /\ req[r].subject # <<>> /\ req[r].body # <<>>
    /\ campaigns[req[r].campaign_id].status = "sent"

\* C2, as claimed: once a campaign's stored status is sent, no later step changes its
\* row (status, subject, body, recipient_count), its recipient rows or its token rows.
C2_SentIsFinal ==
  [][\A id \in 1..Len(campaigns) :
      campaigns[id].status = "sent"
      => /\ campaigns'[id] = campaigns[id]
         /\ RowsOf(recipients', id) = RowsOf(recipients, id)
         /\ RowsOf(campaign_tokens', id) = RowsOf(campaign_tokens, id)]_vars

\* the replies table holds at most one row for each message id
OneReplyPerMessageId ==
  \A j, k \in 1..Len(replies) : replies[j].message_id = replies[k].message_id => j = k

\* C3, as claimed: in every reachable state, under any interleaving of inbound webhook
\* requests, the replies table holds at most one row for each provider message id.
C3_OneReplyPerMessageId == OneReplyPerMessageId

\* what the sanitizer has to return for the inbound bodies
Sanitized(raw) == IF raw = RawDated THEN <<"R", "e">> ELSE <<"o", "k">>

\* C4: when ingestion calls run one after the other, the replies table holds at most
\* one row for each message id; a stored row is never changed or removed; the row a
\* call stores carries the call's message id and the sanitized body of that call; and a
\* call whose message id already has a row changes no table and is answered 200.
C4_IngestionIdempotent ==
  /\ []OneReplyPerMessageId
  /\ [][/\ Len(replies') >= Len(replies)
        /\ \A k \in 1..Len(replies) : replies'[k] = replies[k]
        /\ replies' # replies =>
             \E r \in Reqs :
               /\ req[r].pc = "mailgun_insert"
               /\ Len(replies') = Len(replies) + 1
               /\ replies'[Len(replies')].message_id = req[r].form.message_id
               /\ replies'[Len(replies')].body = Sanitized(req[r].form.body_plain)
        /\ \A r \in Reqs :
             (/\ Starts(r) /\ req'[r].op = "mailgun"
              /\ \E k \in 1..Len(replies) :
                   replies[k].message_id = req'[r].form.message_id)
             => (tables' = tables /\ req'[r].pc = "done" /\ req'[r].resp.code = 200)]_vars

\* C4, witness: a call whose message id already had a row with another body has been
\* answered 200, and the table holds the one row, with the first body
C4_Witness ==
  \E r \in Reqs :
    /\ req[r].pc = "done" /\ req[r].op = "mailgun" /\ req[r].resp.code = 200
    /\ req[r].form.body_plain = RawQuoted
    /\ Len(replies) = 1
    /\ replies[1].message_id = req[r].form.message_id
    /\ replies[1].body = Sanitized(RawDated)

\* C5, as claimed: every inbound webhook call is answered 200, whatever its storage
\* calls do.
C5_AlwaysAcknowledged ==
  \A r \in Reqs : (req[r].pc = "done" /\ req[r].op = "mailgun") => req[r].resp.code = 200

\* C6, as claimed: recipient addresses stay with the data owner: an audience-upload or
\* a token-map request that carries no X-M-Key header is refused with 403, so that no
\* response to such a request holds a recipient address.
C6_AddressesStayWithDataOwner ==
  \A r \in Reqs :
    (/\ req[r].pc = "done" /\ req[r].op \in {"upload", "token_map"}
     /\ req[r].headers.m = None)
    => req[r].resp.code = 403

\* C7, as claimed: no two recipient rows carry the same token, no token is registered
\* to more than one campaign, and an audience-upload is never stopped by a colliding
\* token: it ends with one token for each kept entry, pairwise distinct.
C7_TokensUnique ==
  /\ \A j, k \in 1..Len(recipients) : recipients[j].token = recipients[k].token => j = k
  /\ \A j, k \in 1..Len(campaign_tokens) :
       campaign_tokens[j].token = campaign_tokens[k].token
       => campaign_tokens[j].campaign_id = campaign_tokens[k].campaign_id
  /\ \A r \in Reqs :
       (req[r].pc = "done" /\ req[r].op = "upload" /\ req[r].resp.code # 200)
       => req[r].resp.code \in {400, 403, 404}
  /\ \A r \in Reqs :
       (req[r].pc = "done" /\ req[r].op = "upload" /\ req[r].resp.code = 200)
       => \A j, k \in 1..Len(req[r].resp.data.map) :
            req[r].resp.data.map[j].token = req[r].resp.data.map[k].token => j = k

\* C8, as claimed: in every reachable state every recipient row (campaign c, token t)
\* has a token row that maps t to c.
C8_TokenResolves ==
  \A k \in 1..Len(recipients) :
    \E j \in 1..Len(campaign_tokens) :
      /\ campaign_tokens[j].token = recipients[k].token
      /\ campaign_tokens[j].campaign_id = recipients[k].campaign_id

\* C9: a send that has fetched its recipients posts to the transport once for each
\* fetched row, in order, whatever the earlier posts returned: while it loops, the
\* posts made are those for the first i - 1 fetched rows and sent + failed = i - 1; a
\* turn of the loop always moves to the next row; the loop ends only after the last
\* row; the rows fetched are the campaign's recipient rows at the select; and the
\* response's sent plus failed equals the number of rows fetched.
C9_EveryRecipientPosted ==
  /\ [](\A r \in Reqs :
          req[r].pc \in {"send_loop", "send_mark"}
          => /\ Len(req[r].posted) = req[r].i - 1
             /\ req[r].sent + req[r].failed = req[r].i - 1
             /\ req[r].pc = "send_loop" => req[r].i <= Len(req[r].recipients)
             /\ req[r].pc = "send_mark" => req[r].i = Len(req[r].recipients) + 1
             /\ \A j \in 1..Len(req[r].posted) :
                  /\ req[r].posted[j].to = req[r].recipients[j].email
                  /\ req[r].posted[j].reply_to =
                       <<"r", "e", "p", "l", "y", "+">> \o req[r].recipients[j].token
                         \o <<"@">> \o REPLY_DOMAIN)
  /\ [][\A r \in Reqs :
          /\ (req[r].pc = "send_fetch" /\ req'[r].pc = "send_loop")
             => (/\ req'[r].recipients = RowsOf(recipients, req[r].campaign_id)
                 /\ req'[r].recipients # <<>>)
          /\ (req[r].pc = "send_loop" /\ req'[r] # req[r])
             => (req'[r].pc \in {"send_loop", "send_mark"} /\ req'[r].i = req[r].i + 1)
          /\ (req[r].pc = "send_mark" /\ req'[r] # req[r])
             => (/\ req'[r].pc = "done" /\ req'[r].resp.code = 200
                 /\ req'[r].resp.data.sent = req[r].sent
                 /\ req'[r].resp.data.failed = req[r].failed
                 /\ req'[r].resp.data.sent + req'[r].resp.data.failed
                      = Len(req[r].recipients))]_vars

\* C9, witness: a send of two recipients has returned with one post failed and the
\* other, made after it or before it, delivered
C9_Witness ==
  \E r \in Reqs :
    /\ req[r].pc = "done" /\ req[r].op = "send" /\ req[r].resp.code = 200
    /\ req[r].resp.data.sent = 1 /\ req[r].resp.data.failed = 1

\* C10: a send that has passed its preconditions (it loops over at least one fetched
\* row) eventually returns 200; the step in which it returns leaves the campaign's
\* status sent, whatever the posts returned; and the status of a campaign becomes
\* sent only in the step of a send that has posted to its last fetched row.
C10_SendCompletesSent ==
  /\ \A r \in Reqs :
       (req[r].pc \in {"send_loop", "send_mark"})
         ~> (req[r].pc = "done" /\ req[r].resp.code = 200)
  /\ [][\A r \in Reqs :
          (req[r].pc \in {"send_loop", "send_mark"} /\ req'[r].pc = "done")
          => (/\ campaigns'[req[r].campaign_id].status = "sent"
              /\ req'[r].resp.data.status = "sent")]_vars
  /\ [][\A id \in 1..Len(campaigns) :
          (campaigns[id].status # "sent" /\ campaigns'[id].status = "sent")
          => \E r \in Reqs :
               /\ req[r].campaign_id = id
               /\ req[r].op \in {"send", "tokenize_and_send"}
               /\ req[r].recipients # <<>>
               /\ Len(req[r].posted) = Len(req[r].recipients)
               /\ req'[r].pc = "done"]_vars

\* C10, witness: a send has returned with every post failed, and the campaign's status
\* is sent
C10_Witness ==
  \E r \in Reqs :
    /\ req[r].pc = "done" /\ req[r].op \in {"send", "tokenize_and_send"}
    /\ req[r].resp.code = 200
    /\ req[r].resp.data.sent = 0 /\ req[r].resp.data.failed = 2
    /\ campaigns[req[r].campaign_id].status = "sent"

\* the request in slot r is a send, by either route
IsSend(q) == q.op \in {"send", "tokenize_and_send"}

\* the request has been answered with the code and the error
Rejected(q, code, error) == q.pc = "done" /\ q.resp.code = code /\ q.resp.error = error

\* the stored text is set: not NULL and not empty
IsSet(text) == text # NullText /\ text # <<>>

\* C11: a send that enters is rejected with not found when the campaign does not exist,
\* else with already sent when its status is sent, else with content not set when its
\* subject or body is empty, and goes on to the select of the recipients otherwise;
\* the select rejects with no recipients when the campaign has no recipient row and
\* lets the loop start otherwise; a rejection changes no table; a transport request is
\* made only by a send in its loop, and a send writes to a table only in the step
\* after its loop.
C11_SendPreconditions ==
  [][\A r \in Reqs :
      /\ (Starts(r) /\ IsSend(req'[r]) /\ req'[r].resp.code # 403)
         => LET id == req'[r].campaign_id IN
            /\ tables' = tables
            /\ req'[r].posted = <<>>
            /\ IF id \notin 1..Len(campaigns)
                 THEN Rejected(req'[r], 404, "campaign not found")
               ELSE IF campaigns[id].status = "sent"
                 THEN Rejected(req'[r], 400, "campaign already sent")
               ELSE IF ~(IsSet(campaigns[id].subject) /\ IsSet(campaigns[id].body))
                 THEN Rejected(req'[r], 400, "campaign content not set")
               ELSE req'[r].pc = "send_fetch"
      /\ (req[r].pc = "send_fetch" /\ req'[r] # req[r])
         => /\ tables' = tables
            /\ req'[r].posted = <<>>
            /\ IF RowsOf(recipients, req[r].campaign_id) = <<>>
                 THEN Rejected(req'[r], 400, "no recipients uploaded")
                 ELSE req'[r].pc = "send_loop"
      /\ (IsSend(req[r]) /\ req'[r] # req[r] /\ req[r].pc # "send_mark" /\ ~Vacant(r))
         => tables' = tables
      /\ Len(req'[r].posted) > Len(req[r].posted) => req[r].pc = "send_loop"]_vars

\* C11, witness: a send of a campaign with content and no recipient row has been
\* answered with the no-recipients rejection
C11_Witness ==
  \E r \in Reqs :
    /\ IsSend(req[r]) /\ Rejected(req[r], 400, "no recipients uploaded")
    /\ IsSet(campaigns[req[r].campaign_id].subject)
    /\ RowsOf(recipients, req[r].campaign_id) = <<>>

\* the entries of an uploaded list that the loop keeps, trimmed, in order
Kept(items) ==
  LET valid == SelectSeq(items, ValidEmail)
  IN  [k \in 1..Len(valid) |-> strip(valid[k])]

\* C12, as claimed: when an audience-upload on campaign c returns 200, the recipient
\* rows of c are exactly the kept entries of that upload, one row and one token row
\* for each, the returned count and the stored recipient_count are their number; and
\* no step of an upload on c changes a row of another campaign.
C12_FullReplace ==
  [][\A r \in Reqs :
      /\ (req[r].pc = "upload_update" /\ req'[r].pc = "done")
         => LET c == req[r].campaign_id
                kept == Kept(req[r].emails.items)
                rows == RowsOf(recipients', c)
                toks == RowsOf(campaign_tokens', c)
            IN  /\ req'[r].resp.code = 200
                /\ Len(rows) = Len(kept)
                /\ \A k \in 1..Len(rows) : rows[k].email = kept[k]
                /\ Len(toks) = Len(kept)
                /\ \A k \in 1..Len(rows) : \E j \in 1..Len(toks) : toks[j].token = rows[k].token
                /\ req'[r].resp.data.count = Len(kept)
                /\ campaigns'[c].recipient_count = Len(kept)
      /\ (req[r].op = "upload" /\ ~Vacant(r) /\ req'[r] # req[r])
         => \A id \in 1..Len(campaigns) :
              id # req[r].campaign_id
              => /\ campaigns'[id] = campaigns[id]
                 /\ RowsOf(recipients', id) = RowsOf(recipients, id)
                 /\ RowsOf(campaign_tokens', id) = RowsOf(campaign_tokens, id)]_vars

\* C13: an audience-upload that enters goes on to its deletes only when its campaign
\* exists and is not sent and its emails are a non-empty list of at most 1000 entries;
\* otherwise it is answered in that step with 404 (unknown campaign) or 400 (campaign
\* sent, emails missing, empty or no list, more than 1000 entries), and that step
\* changes no row of any table.
C13_RejectedUploadFrame ==
  [][\A r \in Reqs :
      (Starts(r) /\ req'[r].op = "upload" /\ req'[r].resp.code # 403)
      => LET id == req'[r].campaign_id IN
         IF req'[r].pc = "upload_delete_recipients"
         THEN /\ id \in 1..Len(campaigns)
              /\ campaigns[id].status # "sent"
              /\ req'[r].emails.is_list
              /\ req'[r].emails.items # <<>>
              /\ Len(req'[r].emails.items) <= 1000
              /\ tables' = tables
         ELSE /\ tables' = tables
              /\ IF id \notin 1..Len(campaigns)
                   THEN Rejected(req'[r], 404, "campaign not found")
                 ELSE IF campaigns[id].status = "sent"
                   THEN Rejected(req'[r], 400, "campaign already sent")
                 ELSE \/ Rejected(req'[r], 400, "emails must be a list")
                      \/ Rejected(req'[r], 400, "max 1000 emails per request")]_vars

\* C13, witness: an upload has been answered with the limit rejection, and the
\* campaign's two recipient rows and two token rows are in place
C13_Witness ==
  \E r \in Reqs :
    /\ req[r].op = "upload" /\ Rejected(req[r], 400, "max 1000 emails per request")
    /\ Len(RowsOf(recipients, req[r].campaign_id)) = 2
    /\ Len(RowsOf(campaign_tokens, req[r].campaign_id)) = 2
    /\ campaigns[req[r].campaign_id].recipient_count = 2

\* C14: for every token t that create_token can return and every reply domain d, a
\* webhook call to the address reply+ t @ d whose message id is new reads the token t
\* from it, and the reply it stores carries t; a call to an address that does not
\* start with reply+ or has no @ reads no token: it is answered 200 and stores nothing.
C14_CodecRoundTrip ==
  [][\A r \in Reqs :
      /\ (Starts(r) /\ req'[r].op = "mailgun")
         => LET recipient == req'[r].form.recipient
                fresh == \A k \in 1..Len(replies) :
                           replies[k].message_id # req'[r].form.message_id
            IN  /\ \A t \in Tokens, d \in Domains :
                     (recipient = <<"r", "e", "p", "l", "y", "+">> \o t \o <<"@">> \o d /\ fresh)
                     => (req'[r].pc = "mailgun_lookup" /\ req'[r].token = t)
                /\ ((\A k \in 1..Len(recipient) : recipient[k] # "@")
                     \/ Len(recipient) < 6
                     \/ SubSeq(recipient, 1, 6) # <<"r", "e", "p", "l", "y", "+">>)
                   => (req'[r].pc = "done" /\ req'[r].resp.code = 200 /\ tables' = tables)
      /\ (req[r].pc = "mailgun_insert" /\ req'[r] # req[r])
         => /\ Len(replies') = Len(replies) + 1
            /\ \E t \in Tokens, d \in Domains :
                 /\ req[r].form.recipient = <<"r", "e", "p", "l", "y", "+">> \o t \o <<"@">> \o d
                 /\ replies'[Len(replies')].token = t]_vars

\* C14, witness: a reply to an address whose domain holds an @ itself has been stored
\* with the address's token
C14_Witness ==
  \E r \in Reqs, k \in 1..Len(replies) :
    /\ req[r].pc = "done" /\ req[r].op = "mailgun"
    /\ req[r].form.recipient =
         <<"r", "e", "p", "l", "y", "+">> \o create_token(1) \o <<"@", "a", "@", "b">>
    /\ replies[k].message_id = req[r].form.message_id
    /\ replies[k].token = create_token(1)

\* the quote-introduction markers
Markers == {<<"\n", "O", "n", " ">>, <<"\n", "F", "r", "o", "m", ":">>, <<"\n", ">">>}

\* the positions of x at which a marker starts
MarkerStarts(x) ==
  {i \in 1..Len(x) :
     \E m \in Markers : i + Len(m) - 1 <= Len(x) /\ SubSeq(x, i, i + Len(m) - 1) = m}

\* x up to its first marker
BeforeMarkers(x) ==
  IF MarkerStarts(x) = {} THEN x ELSE SubSeq(x, 1, Min(MarkerStarts(x)) - 1)

\* C15: the body a webhook call stores for the inbound body x is sanitize(x): the part
\* of x before its first marker, trimmed; it holds no marker and no blank at either
\* end, and sanitizing it again returns it unchanged: sanitize(sanitize(x)) =
\* sanitize(x), the empty text included.
C15_SanitizerIdempotent ==
  [][\A r \in Reqs :
      (req[r].pc = "mailgun_insert" /\ replies' # replies)
      => LET x == req[r].form.body_plain
             b == replies'[Len(replies')].body
         IN  /\ b = clean_body(x)
             /\ b = strip(BeforeMarkers(x))
             /\ MarkerStarts(b) = {}
             /\ b # <<>> => (b[1] \notin Whitespace /\ b[Len(b)] \notin Whitespace)
             /\ clean_body(b) = b
             /\ clean_body(clean_body(x)) = clean_body(x)]_vars

\* C15, witness: a body with a blank before its marker has been stored without the
\* blank and without the marker and what follows it
C15_Witness ==
  \E r \in Reqs :
    /\ req[r].pc = "done"
    /\ req[r].form.body_plain = <<"a", " ", "\n", "F", "r", "o", "m", ":", " ", "b">>
    /\ Len(replies) = 1 /\ replies[1].body = <<"a">>

\* C16: in every reachable state, under any interleaving of create, content-set,
\* audience-upload and send calls, accepted or rejected, every campaign has its
\* subject and body either both set (not NULL, not empty) or both unset (NULL).
C16_SubjectAndBodyTogether ==
  \A id \in 1..Len(campaigns) :
    \/ IsSet(campaigns[id].subject) /\ IsSet(campaigns[id].body)
    \/ campaigns[id].subject = NullText /\ campaigns[id].body = NullText

\* C16, witness: a campaign created without content has been given a subject and a
\* body by a content-set, the subject trimmed
C16_Witness ==
  \E r \in Reqs :
    /\ req[r].op = "content" /\ req[r].pc = "done" /\ req[r].resp.code = 200
    /\ campaigns[req[r].campaign_id].subject = <<"Y", "o">>
    /\ campaigns[req[r].campaign_id].body = <<"B", "y", "e">>
    /\ campaigns[req[r].campaign_id].recipient_count = 0

\* C17, as claimed: an audience-upload that returns 200 stores a nonzero recipient
\* count, and its status is audience or draft, never ready.
C17_UploadNeverReady ==
  [][\A r \in Reqs :
      (req[r].pc = "upload_update" /\ req'[r].pc = "done")
      => /\ req'[r].resp.data.count > 0
         /\ campaigns'[req[r].campaign_id].recipient_count > 0
         /\ campaigns'[req[r].campaign_id].status \in {"audience", "draft"}]_vars

\* C17, amended: an audience-upload that returns 200 stores as recipient count the
\* number of its kept entries, which is zero when every entry of its list is dropped;
\* the status it stores and returns is audience when the campaign it read had content
\* and the count is nonzero, ready when it had content and the count is zero, and
\* draft when it had no content.
C17_UploadStatus ==
  [][\A r \in Reqs :
      (req[r].pc = "upload_update" /\ req'[r].pc = "done")
      => LET c == req[r].campaign_id
             n == Len(Kept(req[r].emails.items))
         IN  /\ req'[r].resp.code = 200
             /\ req'[r].resp.data.count = n
             /\ campaigns'[c].recipient_count = n
             /\ campaigns'[c].status = req'[r].resp.data.status
             /\ req'[r].resp.data.status =
                  IF ~IsSet(req[r].camp.subject) THEN "draft"
                  ELSE IF n > 0 THEN "audience" ELSE "ready"]_vars

\* C17, witness: an upload whose only entry was dropped has returned 200 with count 0
\* and status ready, and the campaign is stored so
C17_Witness ==
  \E r \in Reqs :
    /\ req[r].op = "upload" /\ req[r].pc = "done" /\ req[r].resp.code = 200
    /\ req[r].resp.data.count = 0 /\ req[r].resp.data.status = "ready"
    /\ campaigns[req[r].campaign_id].status = "ready"
    /\ campaigns[req[r].campaign_id].recipient_count = 0

\* the status that a campaign's stored content and recipient_count determine
StatusFromData(camp) ==
  IF ~IsSet(camp.subject) THEN "draft"
  ELSE IF camp.recipient_count = 0 THEN "ready" ELSE "audience"

\* C18, as claimed: whenever no request is in flight, every campaign that is not sent
\* has the status its stored data determine: draft exactly when content is unset,
\* ready exactly when content is set and recipient_count is 0, audience exactly when
\* content is set and recipient_count is nonzero.
C18_StatusFromData ==
  Quiet => \A id \in 1..Len(campaigns) :
             campaigns[id].status # "sent"
             => campaigns[id].status = StatusFromData(campaigns[id])

\* the address has the form reply+<token>@<anything>, the token not empty
IsReplyAddress(recipient) ==
  /\ Len(recipient) > 6
  /\ SubSeq(recipient, 1, 6) = <<"r", "e", "p", "l", "y", "+">>
  /\ recipient[7] # "@"
  /\ \E k \in 8..Len(recipient) : recipient[k] = "@"

\* the campaign ids the token registry holds for the token, NULL when it holds none
Registered(token) ==
  IF \E k \in 1..Len(campaign_tokens) : campaign_tokens[k].token = token
  THEN {campaign_tokens[k].campaign_id :
          k \in {j \in 1..Len(campaign_tokens) : campaign_tokens[j].token = token}}
  ELSE {NullId}

\* C19, as claimed: a webhook call goes on to store a reply exactly when its message
\* id and body are present, its recipient is a reply address and no reply with its
\* message id exists, and is answered 200 with nothing stored otherwise; the call that
\* goes on looks its token up, stores one reply with the token, the campaign id the
\* registry holds for it (NULL when it holds none), the sanitized body and the message
\* id, stores it only while no reply with the message id exists, and is answered 200.
C19_StoresExactlyWhen ==
  [][\A r \in Reqs :
      /\ (Starts(r) /\ req'[r].op = "mailgun")
         => LET form == req'[r].form IN
            IF /\ IsSet(form.message_id) /\ IsSet(form.body_plain)
               /\ IsReplyAddress(form.recipient)
               /\ \A k \in 1..Len(replies) : replies[k].message_id # form.message_id
            THEN req'[r].pc = "mailgun_lookup" /\ tables' = tables
            ELSE req'[r].pc = "done" /\ req'[r].resp.code = 200 /\ tables' = tables
      /\ (req[r].pc = "mailgun_lookup" /\ req'[r] # req[r])
         => /\ req'[r].pc = "mailgun_insert"
            /\ req'[r].found_campaign_id \in Registered(req[r].token)
            /\ tables' = tables
      /\ (req[r].pc = "mailgun_insert" /\ req'[r] # req[r])
         => /\ \A k \in 1..Len(replies) : replies[k].message_id # req[r].form.message_id
            /\ replies' = Append(replies,
                 [token |-> req[r].token, campaign_id |-> req[r].found_campaign_id,
                  subject |-> req[r].form.subject,
                  body |-> strip(BeforeMarkers(req[r].form.body_plain)),
                  message_id |-> req[r].form.message_id])
            /\ req'[r].pc = "done" /\ req'[r].resp.code = 200]_vars

\* the request is a send of campaign id that has made a transport request
Dispatches(q, id) ==
  /\ IsSend(q) /\ q.campaign_id = id
  /\ \/ q.pc \in {"send_loop", "send_mark"} /\ q.posted # <<>>
     \/ q.pc = "done" /\ q.resp.code = 200

\* C20, as claimed: under any interleaving of send requests, by either route, at most
\* one request of a campaign makes transport requests, and a campaign that is sent is
\* never written sent again.
C20_DispatchedOnce ==
  /\ [](\A id \in 1..Len(campaigns) : \A r1, r2 \in Reqs :
          (Dispatches(req[r1], id) /\ Dispatches(req[r2], id)) => r1 = r2)
  /\ [][\A r \in Reqs :
          (req[r].pc = "send_mark" /\ req'[r].pc = "done")
          => campaigns[req[r].campaign_id].status # "sent"]_vars

====
